---------------------------- MODULE Spec2Model ----------------------------
(***************************************************************************)
(* Model of the asynchronous backup-job subsystem of bitwarden-backup:     *)
(*   src/api/jobs.py         BackupJobManager (the Redis job store) and    *)
(*                           the background unit run_backup_job            *)
(*   src/api/routes/jobs.py  the HTTP handlers (trigger, cancel, list,     *)
(*                           stream)                                       *)
(*                                                                         *)
(* Scheduling.  run_backup_job and trigger_backup_job are coroutines of    *)
(* one asyncio event loop: between two awaits a coroutine runs alone on    *)
(* the loop (variable loop names who holds it).  cancel_job is a plain     *)
(* `def` route, which FastAPI runs in a worker thread: its Redis commands  *)
(* interleave with everything else one command at a time.  update_job is a *)
(* read-modify-write (GET, then SETEX of the whole record), so its two     *)
(* commands are two steps.                                                 *)
(*                                                                         *)
(* Time is counted in days: JOB_TTL = 86400 * 7 seconds is 7.              *)
(***************************************************************************)
EXTENDS Integers, Sequences, FiniteSets, TLC

\* ------------------------------------------------------------- bounds
MaxJobs      == 1   \* jobs triggered by POST /jobs/trigger in a behaviour
MaxCancels   == 2   \* cancel requests (worker threads) in a behaviour
MaxLines     == 1   \* output lines the backup process prints
MaxRunClock  == 1   \* clock ticks while jobs run (Spec)
MaxStoreJobs == 2   \* jobs created by direct calls of the store (SpecStore)
MaxLogs      == 3   \* entries appended to one list by direct calls
MaxPolls     == 3   \* calls of get_new_logs
MaxSweeps    == 2   \* calls of cleanup_old_jobs
MaxUpdates   == 2   \* direct calls of update_job
MaxLists     == 1   \* calls of list_jobs
MaxSignals   == 2   \* direct calls of cancel_running_job
MaxRegistryJobs == 2 \* jobs triggered in a behaviour of SpecRegistry

\* ---------------------------------------------------- program constants
JOB_TTL == 7

JobIds    == 1..(IF MaxJobs > MaxStoreJobs THEN MaxJobs ELSE MaxStoreJobs)
Handlers  == 1..MaxCancels

PENDING   == "pending"
RUNNING   == "running"
COMPLETED == "completed"
FAILED    == "failed"
CANCELLED == "cancelled"
JobStatus == {PENDING, RUNNING, COMPLETED, FAILED, CANCELLED}
Terminal  == {COMPLETED, FAILED, CANCELLED}

\* Python's None, one per type it stands in for.
NoTime     == -1
NoProgress == -1
NoneStr    == "None"
NoResult   == [none |-> TRUE]
NoJob      == [none |-> TRUE]
NoJobId    == 0
Handling   == "handling"

VARIABLES
    now,            \* datetime.now(UTC), in days
    redis_job,      \* backup_job:<id>       -> the record, or NoJob
    redis_exp,      \* backup_job:<id>       -> the time the key expires
    redis_logs,     \* backup_job_logs:<id>  -> the list of log entries
    redis_lexp,     \* backup_job_logs:<id>  -> the time the key expires
    redis_idx,      \* backup_jobs_list      -> score of <id>, or NoTime
    nextId,         \* the next fresh job id (uuid4)
    running_tasks,  \* _running_tasks: ids with a registered task
    pc,             \* each task's position in run_backup_job
    must_cancel,    \* task.cancel() was called and not yet delivered
    tl,             \* each task's locals
    loop,           \* who runs on the event loop: <<>> when it is idle
    tresp,          \* the status POST /jobs/trigger answered, per job
    creq,           \* the cancel requests, one per worker thread
    poll,           \* a client of get_new_logs: its job, cursor and entries
    sweep,          \* the calls of cleanup_old_jobs: the last one's result
    upd,            \* the direct calls of update_job: the last one's result
    lst,            \* the calls of list_jobs: the last one's result
    stream,         \* a GET /jobs/{id}/stream: its generator's locals and events
    sig,            \* a thread calling cancel_running_job: its position and result
    viewer          \* a second GET /jobs/{id}/stream of the job of stream

vars == <<now, redis_job, redis_exp, redis_logs, redis_lexp, redis_idx, nextId,
          running_tasks, pc, must_cancel, tl, loop, tresp, creq, poll, sweep,
          upd, lst, stream, sig, viewer>>

redisVars == <<redis_job, redis_exp, redis_logs, redis_lexp, redis_idx>>
taskVars  == <<running_tasks, pc, must_cancel, tl, loop>>
callVars  == <<poll, sweep, upd, lst, stream, sig, viewer>>

\* --------------------------------------------------------- JobUpdate
JobUpdate(status, progress, current_step, error, result) ==
    [status |-> status, progress |-> progress, current_step |-> current_step,
     error |-> error, result |-> result]

\* ------------------------------------------------- BackupJobManager
\* create_job's initial record.
NewJobData(id, t) ==
    [id |-> id, status |-> PENDING, created_at |-> t, started_at |-> NoTime,
     completed_at |-> NoTime, progress |-> 0, current_step |-> "Initializing...",
     error |-> NoneStr, result |-> NoResult]

\* get_job: GET; an expired key reads as missing.
get_job(id) ==
    IF redis_job[id] # NoJob /\ now < redis_exp[id] THEN redis_job[id] ELSE NoJob

\* A variant in which a status change also resets the progress.
ApplyStatus_resets(job, update, t) ==
    IF update.status = NoneStr THEN job
    ELSE LET j1 == [job EXCEPT !.status = update.status, !.progress = 0] IN
         IF update.status = RUNNING /\ job.started_at = NoTime
         THEN [j1 EXCEPT !.started_at = t]
         ELSE IF update.status \in Terminal
         THEN [j1 EXCEPT !.completed_at = t]
         ELSE j1

\* update_job, lines 94-113: the record it will write, from the record read.
ApplyStatus(job, update, t) ==
    IF update.status = NoneStr THEN job
    ELSE LET j1 == [job EXCEPT !.status = update.status] IN
         IF update.status = RUNNING /\ job.started_at = NoTime
         THEN [j1 EXCEPT !.started_at = t]
         ELSE IF update.status \in Terminal
         THEN [j1 EXCEPT !.completed_at = t]
         ELSE j1

\* A variant that drops the result of an update.
ApplyFields_noresult(job, update) ==
    LET j1 == IF update.progress # NoProgress
              THEN [job EXCEPT !.progress = update.progress] ELSE job
        j2 == IF update.current_step # NoneStr
              THEN [j1 EXCEPT !.current_step = update.current_step] ELSE j1
    IN  IF update.error # NoneStr THEN [j2 EXCEPT !.error = update.error] ELSE j2

ApplyFields(job, update) ==
    LET j1 == IF update.progress # NoProgress
              THEN [job EXCEPT !.progress = update.progress] ELSE job
        j2 == IF update.current_step # NoneStr
              THEN [j1 EXCEPT !.current_step = update.current_step] ELSE j1
        j3 == IF update.error # NoneStr
              THEN [j2 EXCEPT !.error = update.error] ELSE j2
    IN  IF update.result # NoResult THEN [j3 EXCEPT !.result = update.result] ELSE j3

\* update_job up to its SETEX: NoJob when the record is missing (return False).
update_job_read(id, update) ==
    LET job == get_job(id) IN
    IF job = NoJob THEN NoJob ELSE ApplyFields(ApplyStatus(job, update, now), update)

\* A variant whose SETEX gives the record one day.
update_job_write_short(id, job) ==
    IF job = NoJob
    THEN UNCHANGED <<redis_job, redis_exp>>
    ELSE /\ redis_job' = [redis_job EXCEPT ![id] = job]
         /\ redis_exp' = [redis_exp EXCEPT ![id] = now + 1]

\* update_job's SETEX of the record prepared by update_job_read.
update_job_write(id, job) ==
    IF job = NoJob
    THEN UNCHANGED <<redis_job, redis_exp>>
    ELSE /\ redis_job' = [redis_job EXCEPT ![id] = job]
         /\ redis_exp' = [redis_exp EXCEPT ![id] = now + JOB_TTL]

\* add_log: RPUSH (which creates the list) and EXPIRE.
LogEntry(level, message) == [level |-> level, message |-> message]

\* The list at backup_job_logs:<id>: an expired key reads as an empty list.
lrange_all(id) == IF now < redis_lexp[id] THEN redis_logs[id] ELSE <<>>

add_log(id, level, message) ==
    /\ redis_logs' = [redis_logs EXCEPT ![id] =
                         Append(lrange_all(id), LogEntry(level, message))]
    /\ redis_lexp' = [redis_lexp EXCEPT ![id] = now + JOB_TTL]


\* LRANGE key start stop: zero-based, both ends included, negative indices
\* counting from the end.
LRange(list, start, stop) ==
    LET n  == Len(list)
        s0 == IF start < 0 THEN (IF n + start < 0 THEN 0 ELSE n + start) ELSE start
        e0 == IF stop < 0 THEN n + stop ELSE (IF stop > n - 1 THEN n - 1 ELSE stop)
    IN  IF s0 > e0 THEN <<>> ELSE SubSeq(list, s0 + 1, e0 + 1)

\* A variant that reads from the entry after last_index.
get_new_logs_skip(id, last_index) ==
    LET logs == LRange(lrange_all(id), last_index + 1, -1)
    IN  <<logs, last_index + Len(logs)>>

\* get_new_logs: (logs, new_last_index).
get_new_logs(id, last_index) ==
    LET logs == LRange(lrange_all(id), last_index, -1)
    IN  <<logs, last_index + Len(logs)>>

\* cleanup_old_jobs: ZRANGEBYSCORE backup_jobs_list 0 cutoff (both bounds
\* included), with cutoff = now - max_age_days * 86400.
old_jobs(max_age_days) ==
    {id \in JobIds : redis_idx[id] # NoTime /\ 0 <= redis_idx[id]
                        /\ redis_idx[id] <= now - max_age_days}

\* cleanup_old_jobs: the two DELs per old job and ZREMRANGEBYSCORE.
cleanup_old_jobs(max_age_days) ==
    LET old == old_jobs(max_age_days) IN
    /\ redis_job'  = [id \in JobIds |-> IF id \in old THEN NoJob ELSE redis_job[id]]
    /\ redis_exp'  = [id \in JobIds |-> IF id \in old THEN NoTime ELSE redis_exp[id]]
    /\ redis_logs' = [id \in JobIds |-> IF id \in old THEN <<>> ELSE redis_logs[id]]
    /\ redis_lexp' = [id \in JobIds |-> IF id \in old THEN NoTime ELSE redis_lexp[id]]
    /\ redis_idx'  = [id \in JobIds |-> IF id \in old THEN NoTime ELSE redis_idx[id]]

\* ZREVRANGE backup_jobs_list 0 -1: the members by score, highest first, and
\* among equal scores by member, highest first.
ZNewest(S) ==
    CHOOSE id \in S : \A o \in S \ {id} :
        \/ redis_idx[o] < redis_idx[id]
        \/ redis_idx[o] = redis_idx[id] /\ o < id

RECURSIVE ZRevSorted(_)
ZRevSorted(S) ==
    IF S = {} THEN <<>> ELSE <<ZNewest(S)>> \o ZRevSorted(S \ {ZNewest(S)})

zrevrange(start, stop) ==
    LRange(ZRevSorted({id \in JobIds : redis_idx[id] # NoTime}), start, stop)

\* list_jobs: the records of the first `limit` ids of the index that still
\* have one.
list_jobs(limit) ==
    LET job_ids == zrevrange(0, limit - 1)
        jobs    == [i \in 1..Len(job_ids) |-> get_job(job_ids[i])]
    IN  SelectSeq(jobs, LAMBDA job : job # NoJob)

\* ------------------------------------------------------ process output
\* What the two external processes can do is the environment's choice.
MaxExitCode == 1
ExitCodes   == 0..MaxExitCode
SetupStderr == {"", "rclone: config error"}
BackupLines == {"", "Unlocking vault", "[ERROR] export failed"}

\* The output lines of backup.sh that a run of SpecProgress may read.
ScanLines ==
    BackupLines \cup {"UNLOCKING VAULT", "Unlocking vault after Logging out",
                      "Backup completed successfully"}

\* The characters of the strings that are searched or searched for.
Chars(s) ==
    CASE s = "Logging out" ->
          <<"L", "o", "g", "g", "i", "n", "g", " ", "o", "u", "t">>
      [] s = "Checking for required dependencies" ->
          <<"C", "h", "e", "c", "k", "i", "n", "g", " ", "f", "o", "r", " ",
          "r", "e", "q", "u", "i", "r", "e", "d", " ", "d", "e", "p", "e",
          "n", "d", "e", "n", "c", "i", "e", "s">>
      [] s = "Validating environment" ->
          <<"V", "a", "l", "i", "d", "a", "t", "i", "n", "g", " ", "e", "n",
          "v", "i", "r", "o", "n", "m", "e", "n", "t">>
      [] s = "Configuring Bitwarden server" ->
          <<"C", "o", "n", "f", "i", "g", "u", "r", "i", "n", "g", " ", "B",
          "i", "t", "w", "a", "r", "d", "e", "n", " ", "s", "e", "r", "v",
          "e", "r">>
      [] s = "Logging into Bitwarden" ->
          <<"L", "o", "g", "g", "i", "n", "g", " ", "i", "n", "t", "o", " ",
          "B", "i", "t", "w", "a", "r", "d", "e", "n">>
      [] s = "Unlocking vault" ->
          <<"U", "n", "l", "o", "c", "k", "i", "n", "g", " ", "v", "a", "u",
          "l", "t">>
      [] s = "Exporting vault data" ->
          <<"E", "x", "p", "o", "r", "t", "i", "n", "g", " ", "v", "a", "u",
          "l", "t", " ", "d", "a", "t", "a">>
      [] s = "Syncing vault data" ->
          <<"S", "y", "n", "c", "i", "n", "g", " ", "v", "a", "u", "l", "t",
          " ", "d", "a", "t", "a">>
      [] s = "Performing secure compression" ->
          <<"P", "e", "r", "f", "o", "r", "m", "i", "n", "g", " ", "s", "e",
          "c", "u", "r", "e", " ", "c", "o", "m", "p", "r", "e", "s", "s",
          "i", "o", "n">>
      [] s = "Validating the encrypted backup" ->
          <<"V", "a", "l", "i", "d", "a", "t", "i", "n", "g", " ", "t", "h",
          "e", " ", "e", "n", "c", "r", "y", "p", "t", "e", "d", " ", "b",
          "a", "c", "k", "u", "p">>
      [] s = "Checking for changes" ->
          <<"C", "h", "e", "c", "k", "i", "n", "g", " ", "f", "o", "r", " ",
          "c", "h", "a", "n", "g", "e", "s">>
      [] s = "Uploading backup" ->
          <<"U", "p", "l", "o", "a", "d", "i", "n", "g", " ", "b", "a", "c",
          "k", "u", "p">>
      [] s = "Pruning old backups" ->
          <<"P", "r", "u", "n", "i", "n", "g", " ", "o", "l", "d", " ", "b",
          "a", "c", "k", "u", "p", "s">>
      [] s = "completed successfully" ->
          <<"c", "o", "m", "p", "l", "e", "t", "e", "d", " ", "s", "u", "c",
          "c", "e", "s", "s", "f", "u", "l", "l", "y">>
      [] s = "" ->
          <<>>
      [] s = "[ERROR] export failed" ->
          <<"[", "E", "R", "R", "O", "R", "]", " ", "e", "x", "p", "o", "r",
          "t", " ", "f", "a", "i", "l", "e", "d">>
      [] s = "UNLOCKING VAULT" ->
          <<"U", "N", "L", "O", "C", "K", "I", "N", "G", " ", "V", "A", "U",
          "L", "T">>
      [] s = "Unlocking vault after Logging out" ->
          <<"U", "n", "l", "o", "c", "k", "i", "n", "g", " ", "v", "a", "u",
          "l", "t", " ", "a", "f", "t", "e", "r", " ", "L", "o", "g", "g",
          "i", "n", "g", " ", "o", "u", "t">>
      [] s = "Backup completed successfully" ->
          <<"B", "a", "c", "k", "u", "p", " ", "c", "o", "m", "p", "l", "e",
          "t", "e", "d", " ", "s", "u", "c", "c", "e", "s", "s", "f", "u",
          "l", "l", "y">>
      [] s = "ERROR" ->
          <<"E", "R", "R", "O", "R">>
      [] s = "WARN" ->
          <<"W", "A", "R", "N">>
      [] s = "SUCCESS" ->
          <<"S", "U", "C", "C", "E", "S", "S">>

Upper == <<"A", "B", "C", "D", "E", "F", "G", "H", "I", "J", "K", "L", "M",
         "N", "O", "P", "Q", "R", "S", "T", "U", "V", "W", "X", "Y", "Z">>
Lower == <<"a", "b", "c", "d", "e", "f", "g", "h", "i", "j", "k", "l", "m",
         "n", "o", "p", "q", "r", "s", "t", "u", "v", "w", "x", "y", "z">>

\* str.lower()
lower(cs) ==
    [i \in 1..Len(cs) |->
        IF \E k \in 1..Len(Upper) : Upper[k] = cs[i]
        THEN Lower[CHOOSE k \in 1..Len(Upper) : Upper[k] = cs[i]]
        ELSE cs[i]]

\* a in b, for strings as sequences of characters
IsSubstring(a, b) ==
    \E i \in 0..(Len(b) - Len(a)) : \A j \in 1..Len(a) : b[i + j] = a[j]

\* PROGRESS_MAP, in its order.
PROGRESS_MAP ==
    << <<"Logging out", 25>>, <<"Checking for required dependencies", 30>>,
       <<"Validating environment", 35>>, <<"Configuring Bitwarden server", 40>>,
       <<"Logging into Bitwarden", 45>>, <<"Unlocking vault", 50>>,
       <<"Exporting vault data", 55>>, <<"Syncing vault data", 60>>,
       <<"Performing secure compression", 65>>,
       <<"Validating the encrypted backup", 70>>, <<"Checking for changes", 75>>,
       <<"Uploading backup", 80>>, <<"Pruning old backups", 90>>,
       <<"completed successfully", 100>> >>

\* The pairs with keyword.lower() in line.lower(), for the keywords of
\* PROGRESS_MAP and the lines of ScanLines.
KeywordHits ==
    UNION {IF IsSubstring(lower(Chars(kl[1])), lower(Chars(kl[2]))) THEN {kl} ELSE {} :
              kl \in {PROGRESS_MAP[i][1] : i \in 1..Len(PROGRESS_MAP)} \X ScanLines}

KeywordIn(keyword, line) == <<keyword, line>> \in KeywordHits

\* A variant that goes through the whole table and keeps the last match.
FirstKeyword_last(line) ==
    LET hits == {i \in 1..Len(PROGRESS_MAP) : KeywordIn(PROGRESS_MAP[i][1], line)}
    IN  IF hits = {} THEN 0 ELSE CHOOSE i \in hits : \A k \in hits : i >= k

\* The index in PROGRESS_MAP of the first keyword found in line, or 0 (the
\* for loop of lines 263-266, which breaks at the first match).
FirstKeyword(line) ==
    LET hits == {i \in 1..Len(PROGRESS_MAP) : KeywordIn(PROGRESS_MAP[i][1], line)}
    IN  IF hits = {} THEN 0 ELSE CHOOSE i \in hits : \A k \in hits : i <= k

\* The pairs with "TOKEN" in line, for the tokens of _parse_log_level and
\* the lines of ScanLines.
TokenHits ==
    UNION {IF IsSubstring(Chars(tk[1]), Chars(tk[2])) THEN {tk} ELSE {} :
              tk \in {"ERROR", "WARN", "SUCCESS"} \X ScanLines}

TokenIn(token, line) == <<token, line>> \in TokenHits

parse_log_level(line) ==
    IF TokenIn("ERROR", line) THEN "ERROR"
    ELSE IF TokenIn("WARN", line) THEN "WARN"
    ELSE IF TokenIn("SUCCESS", line) THEN "SUCCESS"
    ELSE "INFO"

\* --------------------------------------------------- the event loop
Idle       == <<>>
TaskOn(id) == <<"task", id>>

\* Awaits that always suspend the task, awaits that may return at once
\* (buffered output, a process that has already exited), and the ends.
Suspends   == {"start", "setup_exec", "setup_comm", "bk_exec"}
MaySuspend == {"bk_read", "bk_wait"}
Finished   == {"done", "cancelled"}

LoopAfter(id, q) ==
    IF q \in Suspends \cup Finished THEN {Idle}
    ELSE IF q \in MaySuspend THEN {Idle, TaskOn(id)}
    ELSE {TaskOn(id)}

\* The task may take its next step: it holds the loop, or it is suspended
\* and the loop is idle.
CanRun(id) ==
    \/ loop = TaskOn(id)
    \/ loop = Idle /\ pc[id] \in Suspends \cup MaySuspend

\* A task resumed from a suspension with a cancellation pending gets
\* CancelledError thrown at its await.
CancelledHere(id) == must_cancel[id] /\ loop = Idle

NoExit == -1

NoLocals ==
    [buf |-> NoJob, setup_rc |-> NoExit, bk_rc |-> NoExit, err |-> NoneStr,
     nout |-> 0, line |-> NoneStr, nread |-> 0, backup_process |-> FALSE]

Goto(id, q) ==
    /\ pc' = [pc EXCEPT ![id] = q]
    /\ loop' \in LoopAfter(id, q)

\* manager.update_job(...) up to its SETEX.
UpdateRead(id, p, q, update) ==
    /\ pc[id] = p /\ CanRun(id)
    /\ tl' = [tl EXCEPT ![id].buf = update_job_read(id, update)]
    /\ Goto(id, q)
    /\ UNCHANGED <<callVars, now, redisVars, nextId, running_tasks, must_cancel, tresp, creq>>

\* ... and its SETEX.
UpdateWrite(id, p, q) ==
    /\ pc[id] = p /\ CanRun(id)
    /\ update_job_write(id, tl[id].buf)
    /\ tl' = [tl EXCEPT ![id].buf = NoJob]
    /\ Goto(id, q)
    /\ UNCHANGED <<callVars, now, redis_logs, redis_lexp, redis_idx, nextId, running_tasks, must_cancel,
                   tresp, creq>>

\* manager.add_log(...).
LogStep(id, p, q, level, message) ==
    /\ pc[id] = p /\ CanRun(id)
    /\ add_log(id, level, message)
    /\ Goto(id, q)
    /\ UNCHANGED <<callVars, now, redis_job, redis_exp, redis_idx, nextId, running_tasks,
                   must_cancel, tl, tresp, creq>>

\* An await is resumed: with CancelledError when a cancellation is pending.
\* A variant without the except asyncio.CancelledError handler: the
\* cancellation ends the task at once.
Resume_nohandler(id, p, q, locals) ==
    /\ pc[id] = p /\ CanRun(id)
    /\ IF CancelledHere(id)
       THEN /\ must_cancel' = [must_cancel EXCEPT ![id] = FALSE]
            /\ pc' = [pc EXCEPT ![id] = "cancelled"]
            /\ loop' = Idle
            /\ tl' = tl
       ELSE /\ must_cancel' = must_cancel
            /\ tl' = [tl EXCEPT ![id] = locals]
            /\ Goto(id, q)
    /\ UNCHANGED <<callVars, now, redisVars, nextId, running_tasks, tresp, creq>>

Resume(id, p, q, locals) ==
    /\ pc[id] = p /\ CanRun(id)
    /\ IF CancelledHere(id)
       THEN /\ must_cancel' = [must_cancel EXCEPT ![id] = FALSE]
            /\ pc' = [pc EXCEPT ![id] = "can_upd"]
            /\ loop' = TaskOn(id)
            /\ tl' = tl
       ELSE /\ must_cancel' = must_cancel
            /\ tl' = [tl EXCEPT ![id] = locals]
            /\ Goto(id, q)
    /\ UNCHANGED <<callVars, now, redisVars, nextId, running_tasks, tresp, creq>>


\* ------------------------------------------------ _run_setup_script
\* A variant that goes on to the backup step after a failed setup.
SetupFailedNext_continues == "bk_log"

\* Where the run goes when _run_setup_script returns False: it returns.
SetupFailedNext == "done"

run_setup_script(id) ==
    \/ UpdateRead(id, "setup_upd", "setup_upd_w",
           JobUpdate(NoneStr, 10, "Setting up rclone configuration...", NoneStr, NoResult))
    \/ UpdateWrite(id, "setup_upd_w", "setup_log")
    \/ LogStep(id, "setup_log", "setup_exec", "INFO", "Running setup-rclone.sh")
       \* await asyncio.create_subprocess_exec("./setup-rclone.sh")
    \/ Resume(id, "setup_exec", "setup_comm", tl[id])
       \* await setup_process.communicate(): the exit code, stdout and stderr
    \/ \E rc \in ExitCodes, n \in 0..MaxLines, e \in SetupStderr :
          /\ rc = 0 => e = ""
          /\ Resume(id, "setup_comm", "setup_out",
                    [tl[id] EXCEPT !.setup_rc = rc, !.nout = n, !.err = e])
       \* one INFO entry per non-empty line of stdout
    \/ /\ tl[id].nout > 0
       /\ pc[id] = "setup_out" /\ CanRun(id)
       /\ add_log(id, "INFO", "[setup] line")
       /\ tl' = [tl EXCEPT ![id].nout = @ - 1]
       /\ UNCHANGED <<callVars, now, redis_job, redis_exp, redis_idx, nextId, running_tasks,
                      pc, must_cancel, loop, tresp, creq>>
       \* returncode != 0
    \/ /\ tl[id].nout = 0 /\ tl[id].setup_rc # 0
       /\ LogStep(id, "setup_out", "setup_fail_upd", "ERROR",
                  "Setup failed: " \o (IF tl[id].err # "" THEN tl[id].err ELSE "Setup failed"))
    \/ UpdateRead(id, "setup_fail_upd", "setup_fail_upd_w",
           JobUpdate(FAILED, NoProgress, "Setup failed",
                     IF tl[id].err # "" THEN tl[id].err ELSE "Setup failed", NoResult))
       \* return False; run_backup_job returns
    \/ UpdateWrite(id, "setup_fail_upd_w", SetupFailedNext)
       \* returncode == 0
    \/ /\ tl[id].nout = 0 /\ tl[id].setup_rc = 0
       /\ LogStep(id, "setup_out", "setup_ok_upd", "SUCCESS", "Rclone setup completed")
    \/ UpdateRead(id, "setup_ok_upd", "setup_ok_upd_w",
           JobUpdate(NoneStr, 20, "Running backup script...", NoneStr, NoResult))
    \/ UpdateWrite(id, "setup_ok_upd_w", "bk_log")

\* ------------------------------------------------ _run_backup_script
\* A variant that leaves the progress where the output lines put it.
CompletedUpdate_noprogress ==
    JobUpdate(COMPLETED, NoProgress, "Backup completed successfully", NoneStr,
              [exit_code |-> 0])

\* The update written when the backup process exits 0.
CompletedUpdate ==
    JobUpdate(COMPLETED, 100, "Backup completed successfully", NoneStr,
              [exit_code |-> 0])

\* A variant that does not name the exit code.
BackupFailedError_generic(rc) == "Backup failed"

\* error_msg of a backup process that exits with rc # 0.
BackupFailedError(rc) == "Backup script exited with code " \o ToString(rc)

\* async for line_bytes in backup_process.stdout: the next line, stripped;
\* an empty one is skipped.
ReadLine(id, Lines) ==
    /\ tl[id].nread < MaxLines
    /\ \E line \in Lines :
          Resume(id, "bk_read", IF line = "" THEN "bk_read" ELSE "bk_line_log",
                 [tl[id] EXCEPT !.line = line, !.nread = @ + 1])

run_backup_script(id) ==
    \/ LogStep(id, "bk_log", "bk_exec", "INFO", "Starting backup.sh script")
       \* await asyncio.create_subprocess_exec("./scripts/backup.sh")
    \/ Resume(id, "bk_exec", "bk_read", [tl[id] EXCEPT !.backup_process = TRUE])
       \* async for line_bytes in backup_process.stdout: a line ...
    \/ ReadLine(id, BackupLines)
       \* ... or the end of the output
    \/ Resume(id, "bk_read", "bk_wait", [tl[id] EXCEPT !.line = NoneStr])
    \/ LogStep(id, "bk_line_log",
               IF FirstKeyword(tl[id].line) = 0 THEN "bk_read" ELSE "bk_line_upd",
               parse_log_level(tl[id].line), tl[id].line)
    \/ /\ pc[id] = "bk_line_upd"
       /\ LET k == FirstKeyword(tl[id].line) IN
          UpdateRead(id, "bk_line_upd", "bk_line_upd_w",
              JobUpdate(NoneStr, PROGRESS_MAP[k][2], PROGRESS_MAP[k][1], NoneStr, NoResult))
    \/ UpdateWrite(id, "bk_line_upd_w", "bk_read")
       \* await backup_process.wait(): the exit code
    \/ \E rc \in ExitCodes :
          Resume(id, "bk_wait", IF rc = 0 THEN "bk_ok_upd" ELSE "bk_fail_upd",
                 [tl[id] EXCEPT !.bk_rc = rc])
    \/ UpdateRead(id, "bk_ok_upd", "bk_ok_upd_w", CompletedUpdate)
    \/ UpdateWrite(id, "bk_ok_upd_w", "bk_ok_log")
    \/ LogStep(id, "bk_ok_log", "done", "SUCCESS", "Backup job completed successfully")
    \/ UpdateRead(id, "bk_fail_upd", "bk_fail_upd_w",
           JobUpdate(FAILED, NoProgress, "Backup failed",
                     BackupFailedError(tl[id].bk_rc), NoResult))
    \/ UpdateWrite(id, "bk_fail_upd_w", "bk_fail_log")
    \/ LogStep(id, "bk_fail_log", "done", "ERROR", BackupFailedError(tl[id].bk_rc))

\* ---------------------------------------------------- run_backup_job
\* An exception other than CancelledError raised at an await inside the try
\* (create_subprocess_exec fails to start the process).
SpawnError == "[Errno 2] No such file or directory"

RaiseException(id) ==
    /\ pc[id] \in {"setup_exec", "bk_exec"} /\ CanRun(id)
    /\ ~CancelledHere(id)
    /\ tl' = [tl EXCEPT ![id].err = SpawnError]
    /\ pc' = [pc EXCEPT ![id] = "exc_upd"]
    /\ loop' = TaskOn(id)
    /\ UNCHANGED <<callVars, now, redisVars, nextId, running_tasks, must_cancel, tresp, creq>>

\* A variant that records the cancellation as a failure.
CancelledUpdate_failed ==
    JobUpdate(FAILED, NoProgress, "Job cancelled", "Job cancelled", NoResult)

\* The update of the except asyncio.CancelledError handler.
CancelledUpdate == JobUpdate(CANCELLED, NoProgress, "Job cancelled", NoneStr, NoResult)

run_backup_job(id) ==
    \/ UpdateRead(id, "start", "run_upd_w",
           JobUpdate(RUNNING, 0, "Starting backup process...", NoneStr, NoResult))
    \/ UpdateWrite(id, "run_upd_w", "run_log")
    \/ LogStep(id, "run_log", "setup_upd", "INFO", "Backup job started")
    \/ run_setup_script(id)
    \/ run_backup_script(id)
       \* except asyncio.CancelledError
    \/ UpdateRead(id, "can_upd", "can_upd_w", CancelledUpdate)
    \/ UpdateWrite(id, "can_upd_w", "can_log")
    \/ LogStep(id, "can_log", "cancelled", "WARN", "Backup job was cancelled")
       \* except Exception
    \/ RaiseException(id)
    \/ UpdateRead(id, "exc_upd", "exc_upd_w",
           JobUpdate(FAILED, NoProgress, "Unexpected error", tl[id].err, NoResult))
    \/ UpdateWrite(id, "exc_upd_w", "exc_log")
    \/ LogStep(id, "exc_log", "done", "ERROR", "Unexpected error: " \o tl[id].err)


\* -------------------------------------------------- the task registry
\* start_backup_job: asyncio.create_task schedules the coroutine, which has
\* not run yet, and registers the task.
start_backup_job(id) ==
    /\ pc' = [pc EXCEPT ![id] = "start"]
    /\ running_tasks' = running_tasks \cup {id}

\* A done callback that empties the registry.
cleanup_clear(id) ==
    /\ pc[id] \in Finished /\ loop = Idle
    /\ id \in running_tasks
    /\ running_tasks' = {}
    /\ UNCHANGED <<callVars, now, redisVars, nextId, pc, must_cancel, tl, loop, tresp, creq>>

\* The done callback of start_backup_job: _running_tasks.pop(job_id, None).
cleanup(id) ==
    /\ pc[id] \in Finished /\ loop = Idle
    /\ id \in running_tasks
    /\ running_tasks' = running_tasks \ {id}
    /\ UNCHANGED <<callVars, now, redisVars, nextId, pc, must_cancel, tl, loop, tresp, creq>>

\* cancel_running_job: the new must_cancel, and what it returns.
cancel_running_job_ok(id) == id \in running_tasks /\ pc[id] \notin Finished

cancel_running_job(id) ==
    IF cancel_running_job_ok(id)
    THEN must_cancel' = [must_cancel EXCEPT ![id] = TRUE]
    ELSE must_cancel' = must_cancel

\* task.cancel(): requests the cancellation of a task that is not done, and
\* does nothing to one that is.
task_cancel(id) ==
    IF pc[id] \notin Finished
    THEN must_cancel' = [must_cancel EXCEPT ![id] = TRUE]
    ELSE must_cancel' = must_cancel

\* cancel_running_job called from a worker thread, as the cancel route calls
\* it, one statement at a time while the event loop runs the tasks.  The
\* route calls it for a job it read as RUNNING, so never for a task that has
\* not started; the id may be one that was never registered.
NoSig == [pc |-> "idle", calls |-> 0, id |-> NoJobId, ret |-> FALSE]

\* task = _running_tasks.get(job_id); if task and not task.done(): ...
\* else return False
SignalCheck(id) ==
    /\ sig.pc = "idle" /\ sig.calls < MaxSignals
    /\ pc[id] # "start"
    /\ sig' = [pc |-> IF cancel_running_job_ok(id) THEN "cancel" ELSE "idle",
               calls |-> sig.calls + 1, id |-> id, ret |-> cancel_running_job_ok(id)]
    /\ UNCHANGED <<poll, sweep, upd, lst, stream, viewer, now, redisVars, nextId, taskVars,
                   tresp, creq>>

\* ... task.cancel(); return True
SignalCancel ==
    /\ sig.pc = "cancel"
    /\ task_cancel(sig.id)
    /\ sig' = [sig EXCEPT !.pc = "idle"]
    /\ UNCHANGED <<poll, sweep, upd, lst, stream, viewer, now, redisVars, nextId,
                   running_tasks, pc, tl, loop, tresp, creq>>

\* --------------------------------------------------------- create_job
create_job(id) ==
    /\ redis_job'  = [redis_job EXCEPT ![id] = NewJobData(id, now)]
    /\ redis_exp'  = [redis_exp EXCEPT ![id] = now + JOB_TTL]
    /\ redis_idx'  = [redis_idx EXCEPT ![id] = now]
    /\ redis_logs' = [redis_logs EXCEPT ![id] = <<>>]
    /\ redis_lexp' = [redis_lexp EXCEPT ![id] = NoTime]

\* ------------------------------------------- POST /jobs/trigger
TriggerOn(id) == <<"trigger", id>>

\* A variant that awaits (and so yields the loop) between start_backup_job
\* and get_job.
TriggerLoop_yields(id) == Idle

\* Who holds the loop between start_backup_job(job_id) and
\* manager.get_job(job_id): the handler, a coroutine that does not await there.
TriggerLoop(id) == TriggerOn(id)

\* trigger_backup_job up to start_backup_job.
TriggerCreateJob ==
    /\ loop = Idle
    /\ create_job(nextId)
    /\ start_backup_job(nextId)
    /\ nextId' = nextId + 1
    /\ loop' = TriggerLoop(nextId)
    /\ tresp' = [tresp EXCEPT ![nextId] = Handling]
    /\ UNCHANGED <<callVars, now, must_cancel, tl, creq>>

TriggerCreate == nextId <= MaxJobs /\ TriggerCreateJob

\* manager.get_job(job_id) and the response.
TriggerRespond ==
    \E id \in JobIds :
       /\ tresp[id] = Handling
       /\ loop \in {Idle, TriggerOn(id)}
       /\ tresp' = [tresp EXCEPT ![id] =
                       IF get_job(id) = NoJob THEN "500" ELSE get_job(id).status]
       /\ loop' = Idle
       /\ UNCHANGED <<callVars, now, redisVars, nextId, running_tasks, pc, must_cancel, tl, creq>>

trigger_backup_job == TriggerCreate \/ TriggerRespond

\* ------------------------------------------- POST /jobs/{id}/cancel
IdleReq == [pc |-> "idle", kind |-> NoneStr, job |-> NoJobId, seen |-> NoneStr,
            buf |-> NoJob, res |-> NoneStr]

\* A client names a job id it was given by the trigger's response, or an
\* id that no job has.
Addressable(id) == tresp[id] \notin {NoneStr, Handling} \/ redis_job[id] = NoJob

\* The requests are taken in the order of their slots.
NextSlot(h) == creq[h].pc = "idle" /\ \A k \in Handlers : k < h => creq[k].pc # "idle"

\* A variant that lets a failed job be cancelled.
RouteCancellable_failed(job) == job.status \in {PENDING, RUNNING, FAILED}

\* routes/jobs.py line 237: the statuses the route cancels.
RouteCancellable(job) == job.status \in {PENDING, RUNNING}

\* manager.get_job and the two rejections (404, 400).
CancelGet(h, id) ==
    /\ NextSlot(h) /\ Addressable(id)
    /\ LET job == get_job(id)
           req == [IdleReq EXCEPT !.kind = "route", !.job = id]
       IN  creq' = [creq EXCEPT ![h] =
              IF job = NoJob
              THEN [req EXCEPT !.pc = "done", !.res = "404"]
              ELSE IF ~RouteCancellable(job)
              THEN [req EXCEPT !.pc = "done", !.seen = job.status, !.res = "400"]
              ELSE [req EXCEPT !.pc = IF job.status = RUNNING THEN "c_sig" ELSE "c_upd",
                               !.seen = job.status]]
    /\ UNCHANGED <<callVars, now, redisVars, nextId, taskVars, tresp>>

\* if job["status"] == RUNNING: cancel_running_job(job_id)
CancelSignal(h) ==
    /\ creq[h].pc = "c_sig"
    /\ cancel_running_job(creq[h].job)
    /\ creq' = [creq EXCEPT ![h].pc = "c_upd"]
    /\ UNCHANGED <<callVars, now, redisVars, nextId, running_tasks, pc, tl, loop, tresp>>

\* manager.update_job(job_id, JobUpdate(status=CANCELLED)): GET ...
CancelUpdateRead(h) ==
    /\ creq[h].pc = "c_upd"
    /\ creq' = [creq EXCEPT ![h].pc = "c_upd_w",
                            ![h].buf = update_job_read(creq[h].job,
                                JobUpdate(CANCELLED, NoProgress, NoneStr, NoneStr, NoResult))]
    /\ UNCHANGED <<callVars, now, redisVars, nextId, taskVars, tresp>>

\* ... and SETEX
CancelUpdateWrite(h) ==
    /\ creq[h].pc = "c_upd_w"
    /\ update_job_write(creq[h].job, creq[h].buf)
    /\ creq' = [creq EXCEPT ![h].pc = "c_log", ![h].buf = NoJob]
    /\ UNCHANGED <<callVars, now, redis_logs, redis_lexp, redis_idx, nextId, taskVars, tresp>>

\* manager.add_log(job_id, "WARN", ...) and the response
CancelLog(h) ==
    /\ creq[h].pc = "c_log"
    /\ add_log(creq[h].job, "WARN", "Job cancelled by user")
    /\ creq' = [creq EXCEPT ![h].pc = "done", ![h].res = "ok"]
    /\ UNCHANGED <<callVars, now, redis_job, redis_exp, redis_idx, nextId, taskVars, tresp>>

cancel_job(h) ==
    \/ \E id \in JobIds : CancelGet(h, id)
    \/ CancelSignal(h)
    \/ CancelUpdateRead(h)
    \/ CancelUpdateWrite(h)
    \/ CancelLog(h)

\* ------------------------------------- BackupJobManager.cancel_job
\* jobs.py line 165: the statuses the store cancels.
ManagerCancellable(job) == job.status \in {PENDING, RUNNING}

\* manager.cancel_job(job_id), called from a thread of its own: get_job and
\* the two returns of False ...
ManagerCancelGet(h, id) ==
    /\ NextSlot(h) /\ Addressable(id)
    /\ LET job == get_job(id)
           req == [IdleReq EXCEPT !.kind = "manager", !.job = id]
       IN  creq' = [creq EXCEPT ![h] =
              IF job = NoJob
              THEN [req EXCEPT !.pc = "done", !.res = "False"]
              ELSE IF ~ManagerCancellable(job)
              THEN [req EXCEPT !.pc = "done", !.seen = job.status, !.res = "False"]
              ELSE [req EXCEPT !.pc = "m_upd", !.seen = job.status]]
    /\ UNCHANGED <<callVars, now, redisVars, nextId, taskVars, tresp>>

\* ... then update_job(job_id, JobUpdate(status=CANCELLED)): GET ...
ManagerCancelRead(h) ==
    /\ creq[h].pc = "m_upd"
    /\ creq' = [creq EXCEPT ![h].pc = "m_upd_w",
                            ![h].buf = update_job_read(creq[h].job,
                                JobUpdate(CANCELLED, NoProgress, NoneStr, NoneStr, NoResult))]
    /\ UNCHANGED <<callVars, now, redisVars, nextId, taskVars, tresp>>

\* ... and SETEX; it returns what update_job returns.
ManagerCancelWrite(h) ==
    /\ creq[h].pc = "m_upd_w"
    /\ update_job_write(creq[h].job, creq[h].buf)
    /\ creq' = [creq EXCEPT ![h].pc = "done", ![h].buf = NoJob,
                            ![h].res = IF creq[h].buf = NoJob THEN "False" ELSE "True"]
    /\ UNCHANGED <<callVars, now, redis_logs, redis_lexp, redis_idx, nextId, taskVars, tresp>>

manager_cancel_job(h) ==
    \/ \E id \in JobIds : ManagerCancelGet(h, id)
    \/ ManagerCancelRead(h)
    \/ ManagerCancelWrite(h)

\* ------------------------------------------------------------- time
Tick ==
    /\ now < MaxRunClock
    /\ now' = now + 1
    /\ UNCHANGED <<callVars, redisVars, nextId, taskVars, tresp, creq>>

\* ------------------------------------------- direct calls of the store
\* The store used on its own, one call at a time, by a single caller.
MaxClock  == 8
SweepAges == {1, JOB_TTL}

NoPoll  == [job |-> NoJobId, cursor |-> 0, got |-> <<>>, calls |-> 0, last |-> 0]
NoSweep == [calls |-> 0, max_age_days |-> 0, ret |-> 0]

NoUpd   == [calls |-> 0, id |-> NoJobId, update |-> NoResult, ret |-> FALSE]
NoList  == [calls |-> 0, limit |-> 0, ret |-> <<>>]

\* The updates a caller passes to update_job.
Touch   == JobUpdate(NoneStr, NoProgress, NoneStr, NoneStr, NoResult)
Updates ==
    {Touch,
     JobUpdate(RUNNING, 0, "Starting backup process...", NoneStr, NoResult),
     JobUpdate(NoneStr, 50, "Exporting vault", NoneStr, NoResult),
     JobUpdate(COMPLETED, 100, "Backup completed successfully", NoneStr,
               [exit_code |-> 0]),
     JobUpdate(FAILED, NoProgress, "Backup failed",
               "Backup script exited with code 1", NoResult),
     JobUpdate(CANCELLED, NoProgress, "Job cancelled", NoneStr, NoResult)}
Limits  == {1, 2}

\* ok = manager.update_job(id, update), the whole call.
StoreUpdate(id, update) ==
    /\ upd.calls < MaxUpdates
    /\ LET job == update_job_read(id, update) IN
       /\ update_job_write(id, job)
       /\ upd' = [calls |-> upd.calls + 1, id |-> id, update |-> update,
                  ret |-> job # NoJob]
    /\ UNCHANGED <<poll, sweep, lst, stream, sig, viewer, now, redis_logs, redis_lexp, redis_idx, nextId,
                   taskVars, tresp, creq>>

\* jobs = manager.list_jobs(limit)
StoreList(limit) ==
    /\ lst.calls < MaxLists
    /\ lst' = [calls |-> lst.calls + 1, limit |-> limit, ret |-> list_jobs(limit)]
    /\ UNCHANGED <<poll, sweep, upd, stream, sig, viewer, now, redisVars, nextId, taskVars, tresp, creq>>

StoreCreate ==
    /\ nextId <= MaxStoreJobs
    /\ create_job(nextId)
    /\ nextId' = nextId + 1
    /\ UNCHANGED <<callVars, now, taskVars, tresp, creq>>

StoreAddLog(id) ==
    /\ id < nextId
    /\ Len(lrange_all(id)) < MaxLogs
    /\ add_log(id, "INFO", "entry " \o ToString(Len(lrange_all(id)) + 1))
    /\ UNCHANGED <<callVars, now, redis_job, redis_exp, redis_idx, nextId, taskVars,
                   tresp, creq>>

\* logs, cursor = manager.get_new_logs(id, cursor), from cursor 0.
StorePoll(id) ==
    /\ id < nextId
    /\ poll.job \in {NoJobId, id} /\ poll.calls < MaxPolls
    /\ LET r == get_new_logs(id, poll.cursor) IN
       poll' = [poll EXCEPT !.job = id, !.cursor = r[2], !.got = @ \o r[1],
                            !.calls = @ + 1, !.last = Len(r[1])]
    /\ UNCHANGED <<sweep, upd, lst, stream, sig, viewer, now, redisVars, nextId, taskVars, tresp, creq>>

StoreCleanup(max_age_days) ==
    /\ sweep.calls < MaxSweeps
    /\ cleanup_old_jobs(max_age_days)
    /\ sweep' = [calls |-> sweep.calls + 1, max_age_days |-> max_age_days,
                 ret |-> Cardinality(old_jobs(max_age_days))]
    /\ UNCHANGED <<poll, upd, lst, stream, sig, viewer, now, nextId, taskVars, tresp, creq>>

StoreTick ==
    /\ now < MaxClock
    /\ now' = now + 1
    /\ UNCHANGED <<callVars, redisVars, nextId, taskVars, tresp, creq>>

\* A client polling the logs of a job while entries are appended.
NextLogs ==
    \/ StoreCreate
    \/ \E id \in JobIds : StoreAddLog(id)
    \/ \E id \in JobIds : StorePoll(id)

\* Jobs created over the days, and sweeps.
NextSweep ==
    \/ StoreCreate
    \/ \E id \in JobIds : StoreAddLog(id)
    \/ \E a \in SweepAges : StoreCleanup(a)
    \/ StoreTick

\* ------------------------------------ GET /jobs/{job_id}/stream
\* The events of the stream, as the generator formats them.
StatusEvent(job) ==
    [type |-> "status", status |-> job.status, progress |-> job.progress,
     current_step |-> job.current_step, error |-> job.error]
LogEvent(log) == [type |-> "log", level |-> log.level, message |-> log.message]
DoneEvent(job) ==
    [type |-> "done", status |-> job.status, result |-> job.result,
     error |-> job.error]
ErrorEvent == [type |-> "error", error |-> "Job not found"]

NoStream ==
    [pc |-> "none", job |-> NoJobId, last_log_index |-> 0, last_progress |-> -1,
     last_status |-> "", current_job |-> NoJob, out |-> <<>>]

\* stream_job_updates: 404 when the job has no record, else the response
\* whose body is event_generator().
StreamOpen(id) ==
    /\ stream.pc = "none"
    /\ stream' = [stream EXCEPT !.job = id,
                     !.pc = IF get_job(id) = NoJob THEN "404" ELSE "read"]
    /\ UNCHANGED <<poll, sweep, upd, lst, sig, viewer, now, redisVars, nextId, taskVars, tresp, creq>>

\* A variant that ends the stream silently when the record is missing.
StreamRead_silent ==
    /\ stream.pc = "read"
    /\ LET current_job == get_job(stream.job) IN
       stream' =
         IF current_job = NoJob
         THEN [stream EXCEPT !.pc = "closed"]
         ELSE IF \/ current_job.status # stream.last_status
                 \/ current_job.progress # stream.last_progress
         THEN [stream EXCEPT !.pc = "logs", !.current_job = current_job,
                             !.last_status = current_job.status,
                             !.last_progress = current_job.progress,
                             !.out = Append(@, StatusEvent(current_job))]
         ELSE [stream EXCEPT !.pc = "logs", !.current_job = current_job]
    /\ UNCHANGED <<poll, sweep, upd, lst, sig, viewer, now, redisVars, nextId, taskVars, tresp, creq>>

\* A variant that does not remember the values it emitted.
StreamRead_forgets ==
    /\ stream.pc = "read"
    /\ LET current_job == get_job(stream.job) IN
       stream' =
         IF current_job = NoJob
         THEN [stream EXCEPT !.pc = "closed", !.out = Append(@, ErrorEvent)]
         ELSE IF \/ current_job.status # stream.last_status
                 \/ current_job.progress # stream.last_progress
         THEN [stream EXCEPT !.pc = "logs", !.current_job = current_job,
                             !.out = Append(@, StatusEvent(current_job))]
         ELSE [stream EXCEPT !.pc = "logs", !.current_job = current_job]
    /\ UNCHANGED <<poll, sweep, upd, lst, sig, viewer, now, redisVars, nextId, taskVars, tresp, creq>>

\* An iteration up to its status event: current_job = manager.get_job(job_id);
\* the error event and the end of the stream when it is missing.
event_read(s) ==
    LET current_job == get_job(s.job) IN
    IF current_job = NoJob
    THEN [s EXCEPT !.pc = "closed", !.out = Append(@, ErrorEvent)]
    ELSE IF \/ current_job.status # s.last_status
            \/ current_job.progress # s.last_progress
    THEN [s EXCEPT !.pc = "logs", !.current_job = current_job,
                   !.last_status = current_job.status,
                   !.last_progress = current_job.progress,
                   !.out = Append(@, StatusEvent(current_job))]
    ELSE [s EXCEPT !.pc = "logs", !.current_job = current_job]

StreamRead ==
    /\ stream.pc = "read"
    /\ stream' = event_read(stream)
    /\ UNCHANGED <<poll, sweep, upd, lst, sig, viewer, now, redisVars, nextId, taskVars, tresp, creq>>

\* A variant that takes a running job for a finished one.
StreamLogs_early ==
    /\ stream.pc = "logs"
    /\ LET r    == get_new_logs(stream.job, stream.last_log_index)
           logs == [i \in 1..Len(r[1]) |-> LogEvent(r[1][i])]
           fin  == stream.current_job.status
                      \in {"running", "completed", "failed", "cancelled"}
       IN  stream' = [stream EXCEPT
                        !.last_log_index = r[2],
                        !.out = @ \o logs \o
                                (IF fin THEN <<DoneEvent(stream.current_job)>> ELSE <<>>),
                        !.pc = IF fin THEN "closed" ELSE "read"]
    /\ UNCHANGED <<poll, sweep, upd, lst, sig, viewer, now, redisVars, nextId, taskVars, tresp, creq>>

\* The rest of the iteration: get_new_logs and a log event per entry, then the
\* done event and the end of the stream when current_job is terminal, else
\* asyncio.sleep(0.5) and the next iteration.
event_logs(s) ==
    LET r    == get_new_logs(s.job, s.last_log_index)
        logs == [i \in 1..Len(r[1]) |-> LogEvent(r[1][i])]
        fin  == s.current_job.status \in {"completed", "failed", "cancelled"}
    IN  [s EXCEPT !.last_log_index = r[2],
                  !.out = @ \o logs \o
                          (IF fin THEN <<DoneEvent(s.current_job)>> ELSE <<>>),
                  !.pc = IF fin THEN "closed" ELSE "read"]

StreamLogs ==
    /\ stream.pc = "logs"
    /\ stream' = event_logs(stream)
    /\ UNCHANGED <<poll, sweep, upd, lst, sig, viewer, now, redisVars, nextId, taskVars, tresp, creq>>

stream_job_updates ==
    \/ \E id \in JobIds : StreamOpen(id)
    \/ StreamRead
    \/ StreamLogs

\* A second connection to the stream of the same job: its own call of
\* stream_job_updates and its own event_generator.
ViewerOpen ==
    /\ viewer.pc = "none" /\ stream.pc # "none"
    /\ viewer' = [viewer EXCEPT !.job = stream.job,
                     !.pc = IF get_job(stream.job) = NoJob THEN "404" ELSE "read"]
    /\ UNCHANGED <<poll, sweep, upd, lst, stream, sig, now, redisVars, nextId, taskVars, tresp, creq>>

ViewerRead ==
    /\ viewer.pc = "read"
    /\ viewer' = event_read(viewer)
    /\ UNCHANGED <<poll, sweep, upd, lst, stream, sig, now, redisVars, nextId, taskVars, tresp, creq>>

\* A variant whose generators share one cursor.
ViewerLogs_shared ==
    /\ viewer.pc = "logs"
    /\ viewer' = event_logs([viewer EXCEPT !.last_log_index = stream.last_log_index])
    /\ UNCHANGED <<poll, sweep, upd, lst, stream, sig, now, redisVars, nextId, taskVars, tresp, creq>>

ViewerLogs ==
    /\ viewer.pc = "logs"
    /\ viewer' = event_logs(viewer)
    /\ UNCHANGED <<poll, sweep, upd, lst, stream, sig, now, redisVars, nextId, taskVars, tresp, creq>>

\* A week passes.
StoreWeek ==
    /\ now + JOB_TTL <= MaxClock
    /\ now' = now + JOB_TTL
    /\ UNCHANGED <<callVars, redisVars, nextId, taskVars, tresp, creq>>

\* A client streaming a job while the job is updated, logged to, swept and
\* left to expire.
NextStream ==
    \/ nextId = 1 /\ StoreCreate
    \/ \E u \in Updates \ {Touch} : StoreUpdate(1, u)
    \/ StoreAddLog(1)
    \/ StoreCleanup(1)
    \/ now < 1 /\ StoreTick
    \/ StoreWeek
    \/ stream_job_updates

\* Two clients streaming one job while it is updated and logged to.
NextViewers ==
    \/ nextId = 1 /\ StoreCreate
    \/ \E u \in Updates \ {Touch} : StoreUpdate(1, u)
    \/ StoreAddLog(1)
    \/ StreamOpen(1)
    \/ StreamRead
    \/ StreamLogs
    \/ ViewerOpen
    \/ ViewerRead
    \/ ViewerLogs

\* Jobs created and updated over the days.
NextUpdate ==
    \/ StoreCreate
    \/ \E id \in JobIds, u \in Updates : StoreUpdate(id, u)
    \/ StoreTick

\* Jobs created and touched over the days, and listed.
NextList ==
    \/ StoreCreate
    \/ \E id \in JobIds : StoreUpdate(id, Touch)
    \/ \E limit \in Limits : StoreList(limit)
    \/ StoreTick

\* ---------------------------------------------------- specification
Init ==
    /\ now = 0
    /\ redis_job  = [id \in JobIds |-> NoJob]
    /\ redis_exp  = [id \in JobIds |-> NoTime]
    /\ redis_logs = [id \in JobIds |-> <<>>]
    /\ redis_lexp = [id \in JobIds |-> NoTime]
    /\ redis_idx  = [id \in JobIds |-> NoTime]
    /\ nextId = 1
    /\ running_tasks = {}
    /\ pc = [id \in JobIds |-> "none"]
    /\ must_cancel = [id \in JobIds |-> FALSE]
    /\ tl = [id \in JobIds |-> NoLocals]
    /\ loop = Idle
    /\ tresp = [id \in JobIds |-> NoneStr]
    /\ creq = [h \in Handlers |-> IdleReq]
    /\ poll = NoPoll
    /\ sweep = NoSweep
    /\ upd = NoUpd
    /\ lst = NoList
    /\ stream = NoStream
    /\ sig = NoSig
    /\ viewer = NoStream

\* The jobs: triggers and their background units.
Jobs ==
    \/ trigger_backup_job
    \/ \E id \in JobIds : run_backup_job(id)
    \/ \E id \in JobIds : cleanup(id)

Next ==
    \/ Jobs
    \/ \E h \in Handlers : cancel_job(h)
    \/ Tick

Spec == Init /\ [][Next]_vars

\* The program (its clock held still), plus callers of the store's own
\* cancel_job, which no route of the program calls.
NextCancel ==
    \/ Jobs
    \/ \E h \in Handlers : cancel_job(h)
    \/ \E h \in Handlers : manager_cancel_job(h)

SpecCancel == Init /\ [][NextCancel]_vars

\* The store on its own.
SpecLogs  == Init /\ [][NextLogs]_vars
SpecSweep == Init /\ [][NextSweep]_vars
SpecUpdate == Init /\ [][NextUpdate]_vars
SpecList  == Init /\ [][NextList]_vars

\* The event loop resumes the generator after each sleep and the client
\* keeps reading.
SpecStream == Init /\ [][NextStream]_vars /\ WF_vars(stream_job_updates)
SpecViewers == Init /\ [][NextViewers]_vars

\* The jobs, and a thread that calls cancel_running_job.
NextSignal ==
    \/ Jobs
    \/ \E id \in JobIds : SignalCheck(id)
    \/ SignalCancel

SpecSignal == Init /\ [][NextSignal]_vars

\* Several jobs and a thread that calls cancel_running_job for the first of
\* them.  The event loop runs every callback it has scheduled.
NextRegistry ==
    \/ nextId <= MaxRegistryJobs /\ TriggerCreateJob
    \/ TriggerRespond
    \/ \E id \in JobIds : run_backup_job(id)
    \/ \E id \in JobIds : cleanup(id)
    \/ SignalCheck(1)
    \/ SignalCancel

SpecRegistry ==
    /\ Init /\ [][NextRegistry]_vars
    /\ \A id \in JobIds : WF_vars(run_backup_job(id)) /\ WF_vars(cleanup(id))
    /\ WF_vars(TriggerRespond)

\* A job whose backup.sh prints any of ScanLines.
NextProgress ==
    \/ Jobs
    \/ \E id \in JobIds : ReadLine(id, ScanLines \ BackupLines)

SpecProgress == Init /\ [][NextProgress]_vars

\* A job, a cancel request for it and a client streaming it.  The generator
\* of the stream is a coroutine of the event loop: it takes its steps when no
\* task holds the loop.
NextDelivery ==
    \/ Jobs
    \/ cancel_job(1)
    \/ loop = Idle /\ stream_job_updates

SpecDelivery == Init /\ [][NextDelivery]_vars

\* Jobs that nobody cancels.  The event loop runs every task that can run,
\* answers every request, and each external process ends.
NextLive == Jobs \/ Tick

SpecLive ==
    /\ Init /\ [][NextLive]_vars
    /\ \A id \in JobIds : WF_vars(run_backup_job(id))
    /\ WF_vars(trigger_backup_job)

\* =================================================================
\* The claims
\* =================================================================

StatusOf(id) == IF get_job(id) = NoJob THEN NoneStr ELSE get_job(id).status

\* A cancel request that read status `seen` for job id has written CANCELLED.
CancelWritten(id, seen) ==
    \E h \in Handlers :
       /\ creq[h].kind = "route" /\ creq[h].job = id /\ creq[h].seen = seen
       /\ creq[h].pc \in {"c_log", "done"}

\* ---- C1: the persisted status changes only along PENDING->RUNNING,
\* PENDING->CANCELLED, RUNNING->COMPLETED, RUNNING->FAILED, RUNNING->CANCELLED,
\* and never leaves COMPLETED, FAILED or CANCELLED.
AllowedTransitions ==
    {<<PENDING, RUNNING>>, <<PENDING, CANCELLED>>, <<RUNNING, COMPLETED>>,
     <<RUNNING, FAILED>>, <<RUNNING, CANCELLED>>}

C1_StatusTransitions ==
    [][\A id \in JobIds :
         (redis_job[id] # NoJob /\ redis_job'[id] # NoJob
             /\ redis_job'[id].status # redis_job[id].status)
         => <<redis_job[id].status, redis_job'[id].status>> \in AllowedTransitions]_vars

\* ---- C2: once a cancel request that read PENDING has written CANCELLED,
\* no read of the job observes RUNNING.
C2_NoRunningAfterPendingCancel ==
    \A id \in JobIds : CancelWritten(id, PENDING) => StatusOf(id) # RUNNING

\* ---- C3: completed_at is null until the first write of a terminal status,
\* is set by that write, and never changes or returns to null afterwards.
C3_CompletedAtSetOnce ==
    [][\A id \in JobIds :
         (redis_job[id] # NoJob /\ redis_job'[id] # NoJob) =>
            /\ redis_job[id].completed_at # NoTime
                  => redis_job'[id].completed_at = redis_job[id].completed_at
            /\ (redis_job[id].completed_at = NoTime
                   /\ redis_job'[id].completed_at # NoTime)
                  => redis_job'[id].status \in Terminal]_vars

\* ---- C4: started_at is null until the first transition into RUNNING, is
\* set by that transition, and never changes or returns to null afterwards.
C4_StartedAtSetOnce ==
    [][\A id \in JobIds :
         (redis_job[id] # NoJob /\ redis_job'[id] # NoJob) =>
            /\ redis_job[id].started_at # NoTime
                  => redis_job'[id].started_at = redis_job[id].started_at
            /\ (redis_job[id].started_at = NoTime
                   /\ redis_job'[id].started_at # NoTime)
                  => redis_job'[id].status = RUNNING]_vars

\* ---- C5: a triggered job that nobody cancels and whose setup and backup
\* steps both exit 0 eventually has status COMPLETED with result.exit_code = 0,
\* and keeps it, so that a polling client sees it after finitely many polls.
CompletedOk(id) ==
    /\ StatusOf(id) = COMPLETED
    /\ get_job(id).result = [exit_code |-> 0]

\* A step of the run did not exit 0: a non-zero exit code, or a process
\* that could not be started.
StepFailed(id) ==
    \/ tl[id].setup_rc \notin {NoExit, 0}
    \/ tl[id].bk_rc \notin {NoExit, 0}
    \/ tl[id].err = SpawnError

C5_EventuallyCompleted ==
    /\ \A id \in JobIds : (pc[id] = "start") ~> (CompletedOk(id) \/ StepFailed(id))
    /\ [][\A id \in JobIds : CompletedOk(id) => CompletedOk(id)']_vars

C5_Witness == pc[1] = "done" /\ CompletedOk(1) /\ ~StepFailed(1)

\* ---- C6: when the execution unit has finished, the job's status is
\* COMPLETED, FAILED or CANCELLED, never RUNNING (nor PENDING).
C6_FinishedIsTerminal ==
    \A id \in JobIds :
       (pc[id] \in Finished /\ get_job(id) # NoJob) => StatusOf(id) \in Terminal

C6_Witness ==
    /\ pc[1] = "done" /\ tl[1].err = SpawnError /\ StatusOf(1) = FAILED
    /\ \E h \in Handlers : creq[h].job = 1 /\ creq[h].res = "ok"

\* ---- C7: the entries returned by successive calls of get_new_logs, each
\* with the cursor the previous one returned, are together a prefix of the
\* log list in append order, and after each call they are the whole list:
\* no entry is returned twice and none is skipped.
IsPrefix(s, t) == Len(s) <= Len(t) /\ s = SubSeq(t, 1, Len(s))

C7_PolledLogsArePrefix ==
    /\ [](poll.job # NoJobId =>
            /\ poll.cursor = Len(poll.got)
            /\ \A id \in JobIds : id = poll.job => IsPrefix(poll.got, lrange_all(id)))
    /\ [][poll'.calls # poll.calls =>
            \A id \in JobIds : id = poll'.job => poll'.got = lrange_all(id)]_vars

C7_Witness ==
    /\ poll.calls >= 2 /\ poll.last >= 1 /\ Len(poll.got) > poll.last
    /\ \E id \in JobIds : id = poll.job /\ Len(lrange_all(id)) > Len(poll.got)

\* ---- C8: cleanup_old_jobs(max_age_days) deletes the record, the log list
\* and the index entry of exactly the jobs created more than max_age_days
\* before the call, leaves every other job as it was, and returns the number
\* of jobs it removed.
OlderThan(max_age_days) ==
    {id \in JobIds : redis_idx[id] # NoTime /\ now - redis_idx[id] > max_age_days}

C8_SweepRemovesExactlyOlder ==
    [][sweep'.calls # sweep.calls =>
         /\ \A id \in JobIds :
               IF id \in OlderThan(sweep'.max_age_days)
               THEN /\ redis_job'[id] = NoJob /\ redis_logs'[id] = <<>>
                    /\ redis_idx'[id] = NoTime
               ELSE /\ redis_job'[id] = redis_job[id] /\ redis_logs'[id] = redis_logs[id]
                    /\ redis_idx'[id] = redis_idx[id]
         /\ sweep'.ret = Cardinality(OlderThan(sweep'.max_age_days))]_vars

\* ---- C9: a cancel that finds the job in a terminal status is rejected (the
\* route answers 400, the store's cancel_job returns False) and writes
\* nothing, each of several concurrent ones.
C9_TerminalCancelRejected ==
    [][\A h \in Handlers :
         (creq[h].pc = "idle" /\ creq'[h].pc # "idle"
             /\ StatusOf(creq'[h].job) \in Terminal)
         => /\ creq'[h].pc = "done"
            /\ creq'[h].res = IF creq'[h].kind = "route" THEN "400" ELSE "False"
            /\ UNCHANGED redisVars
            /\ UNCHANGED must_cancel]_vars

C9_Witness ==
    /\ creq[1].kind = "route" /\ creq[1].res = "400"
    /\ creq[2].kind = "manager" /\ creq[2].res = "False" /\ creq[2].seen \in Terminal
    /\ creq[1].job = creq[2].job

\* ---- C10: POST /jobs/trigger answers status "pending": the unit it
\* started has not run when the handler reads the record.
C10_TriggerAnswersPending ==
    \A id \in JobIds :
       /\ tresp[id] = Handling => (pc[id] = "start" /\ StatusOf(id) = PENDING)
       /\ tresp[id] \notin {NoneStr, Handling} => tresp[id] = PENDING

C10_Witness == tresp[1] = PENDING /\ StatusOf(1) = RUNNING

\* ---- C11: list_jobs(limit) returns the min(limit, N) most recently created
\* of the N records that exist, newest first: no existing job is left out
\* in favour of an index entry whose record is gone.
Existing == {id \in JobIds : get_job(id) # NoJob}

Min(a, b) == IF a < b THEN a ELSE b

C11_ListsMostRecent ==
    [][lst'.calls # lst.calls =>
         LET ret == lst'.ret IN
         /\ Len(ret) = Min(lst'.limit, Cardinality(Existing))
         /\ \A i \in 1..Len(ret) : ret[i].id \in Existing /\ ret[i] = get_job(ret[i].id)
         /\ \A i, j \in 1..Len(ret) :
               i < j => ret[i].id # ret[j].id /\ ret[i].created_at >= ret[j].created_at
         /\ \A id \in Existing :
               (\A i \in 1..Len(ret) : ret[i].id # id)
               => \A i \in 1..Len(ret) : get_job(id).created_at <= ret[i].created_at]_vars

\* ---- C12: update_job(id, update) changes only the fields the update gives
\* (and started_at / completed_at as its status implies), leaves the rest of
\* the record and every other key alone, and returns True; on an id with no
\* record it returns False and writes nothing.
Given(new, none, old) == IF new # none THEN new ELSE old

C12_UpdateFrame ==
    [][upd'.calls # upd.calls =>
         LET id == upd'.id
             u  == upd'.update
             before == get_job(id)
             after  == redis_job'[id]
         IN  /\ \A o \in JobIds \ {id} :
                   redis_job'[o] = redis_job[o] /\ redis_exp'[o] = redis_exp[o]
             /\ UNCHANGED <<redis_logs, redis_lexp, redis_idx>>
             /\ IF before = NoJob
                THEN upd'.ret = FALSE /\ UNCHANGED <<redis_job, redis_exp>>
                ELSE /\ upd'.ret = TRUE
                     /\ after.id = before.id /\ after.created_at = before.created_at
                     /\ after.status = Given(u.status, NoneStr, before.status)
                     /\ after.progress = Given(u.progress, NoProgress, before.progress)
                     /\ after.current_step
                           = Given(u.current_step, NoneStr, before.current_step)
                     /\ after.error = Given(u.error, NoneStr, before.error)
                     /\ after.result = Given(u.result, NoResult, before.result)
                     /\ after.started_at =
                           IF u.status = RUNNING /\ before.started_at = NoTime
                           THEN now ELSE before.started_at
                     /\ after.completed_at =
                           IF u.status \in Terminal THEN now
                           ELSE before.completed_at]_vars

C12_Witness ==
    /\ upd.calls >= 2 /\ upd.ret
    /\ upd.update.status = NoneStr /\ upd.update.progress = 50
    /\ get_job(upd.id) # NoJob
    /\ get_job(upd.id).status = RUNNING /\ get_job(upd.id).progress = 50
    /\ get_job(upd.id).started_at # NoTime

\* ---- C13: a record does not expire before 7 days have passed since its
\* creation (no sweep running): create_job and every update_job that finds
\* the record set its expiry to the full window from the time of the call.
C13_NoEarlyExpiry ==
    /\ [](\A id \in JobIds :
            (redis_idx[id] # NoTime /\ now < redis_idx[id] + JOB_TTL)
            => get_job(id) # NoJob)
    /\ [][nextId' # nextId => redis_exp'[nextId] = now + JOB_TTL]_vars
    /\ [][(upd'.calls # upd.calls /\ upd'.ret)
            => redis_exp'[upd'.id] = now + JOB_TTL]_vars

C13_Witness ==
    \E id \in JobIds :
       /\ redis_idx[id] # NoTime /\ now = redis_idx[id] + JOB_TTL - 1
       /\ get_job(id) # NoJob
       /\ upd.ret /\ upd.id = id

\* ---- C14: a stream emits a done event only in an iteration whose record is
\* terminal, at most one, and nothing after it; when the job's status becomes
\* and stays terminal, the stream emits its done event and ends.
EventsOf(type) == {i \in 1..Len(stream.out) : stream.out[i].type = type}

Opened == stream.pc \notin {"none", "404"}

DoneIsLast ==
    /\ Cardinality(EventsOf("done")) <= 1
    /\ \A i \in EventsOf("done") :
          /\ i = Len(stream.out) /\ stream.pc = "closed"
          /\ stream.current_job # NoJob /\ stream.current_job.status \in Terminal
          /\ stream.out[i].status = stream.current_job.status

C14_DoneOnceWhenTerminal ==
    /\ [][DoneIsLast']_vars
    /\ [][stream.pc = "closed" => stream' = stream]_vars
    /\ (<>[](Opened /\ StatusOf(stream.job) \in Terminal))
          => <>(stream.pc = "closed" /\ EventsOf("done") # {})

C14_Witness ==
    /\ stream.pc = "closed" /\ EventsOf("done") # {}
    /\ EventsOf("log") # {} /\ Cardinality(EventsOf("status")) >= 2

\* ---- C15: when an iteration of an open stream finds the record missing
\* (expired or swept), the stream emits one error event and ends: no status,
\* log or done event follows.
ErrorIsLast ==
    /\ Cardinality(EventsOf("error")) <= 1
    /\ \A i \in EventsOf("error") : i = Len(stream.out) /\ stream.pc = "closed"

C15_MissingRecordEndsStream ==
    /\ [][(stream.pc = "read" /\ get_job(stream.job) = NoJob /\ stream' # stream)
            => /\ stream'.out = Append(stream.out, ErrorEvent)
               /\ stream'.pc = "closed"]_vars
    /\ [][ErrorIsLast']_vars
    /\ [][(stream.pc = "closed" /\ EventsOf("error") # {}) => stream' = stream]_vars

C15_Witness ==
    /\ stream.pc = "closed" /\ EventsOf("error") # {}
    /\ EventsOf("status") # {} /\ EventsOf("log") # {}
    /\ sweep.ret = 1 /\ now < JOB_TTL

\* ---- C16: when the setup step exits non-zero the run appends an ERROR
\* entry, writes FAILED with the step's error text, and returns without
\* launching the backup step; the backup step is launched at most once, and
\* only after the setup step exited 0.
HasLog(id, level, message) ==
    \E i \in 1..Len(lrange_all(id)) : lrange_all(id)[i] = LogEntry(level, message)

SetupFailed(id) == tl[id].setup_rc \notin {NoExit, 0}

SetupErrorText(id) == IF tl[id].err # "" THEN tl[id].err ELSE "Setup failed"

C16_SetupFailureStops ==
    [][\A id \in JobIds :
         /\ SetupFailed(id)' =>
               /\ ~tl'[id].backup_process
               /\ pc'[id] \in {"setup_out", "setup_fail_upd", "setup_fail_upd_w", "done"}
         /\ (SetupFailed(id)' /\ pc'[id] \in {"setup_fail_upd", "setup_fail_upd_w", "done"})
               => HasLog(id, "ERROR", "Setup failed: " \o SetupErrorText(id))'
         /\ (pc[id] = "setup_fail_upd_w" /\ pc'[id] # pc[id]) =>
               /\ redis_job'[id].status = FAILED
               /\ redis_job'[id].error = SetupErrorText(id)
               /\ pc'[id] = "done"
         /\ (tl'[id].backup_process /\ ~tl[id].backup_process)
               => tl[id].setup_rc = 0 /\ pc[id] = "bk_exec"
         /\ tl[id].backup_process => tl'[id].backup_process /\ pc'[id] # "bk_exec"]_vars

C16_Witness ==
    /\ pc[1] = "done" /\ tl[1].setup_rc = 1 /\ tl[1].err = "rclone: config error"
    /\ StatusOf(1) = FAILED /\ get_job(1).error = "rclone: config error"
    /\ ~tl[1].backup_process

\* ---- C17: a cancellation that reaches the run at an await of the setup or
\* backup step makes it write CANCELLED, append a WARN entry and end as
\* cancelled; it records neither FAILED nor an error message.
AwaitPcs == {"setup_exec", "setup_comm", "bk_exec", "bk_read", "bk_wait"}

CancelPcs == {"can_upd", "can_upd_w", "can_log", "cancelled"}

C17_CancellationRecorded ==
    [][\A id \in JobIds :
         /\ (must_cancel[id] /\ ~must_cancel'[id])
               => pc[id] \in AwaitPcs /\ pc'[id] = "can_upd"
         /\ (pc[id] \notin CancelPcs /\ pc'[id] \in CancelPcs)
               => pc[id] \in AwaitPcs /\ must_cancel[id]
         /\ pc[id] \in CancelPcs => pc'[id] \in CancelPcs
         /\ (pc[id] = "can_upd_w" /\ pc'[id] # pc[id]) =>
               /\ redis_job'[id].status = CANCELLED
               /\ redis_job'[id].error = NoneStr
               /\ pc'[id] = "can_log"
         /\ pc'[id] = "cancelled" =>
               /\ pc[id] \in {"can_log", "cancelled"}
               /\ HasLog(id, "WARN", "Backup job was cancelled")'
               /\ redis_job'[id].status = CANCELLED
               /\ redis_job'[id].error = NoneStr]_vars

C17_Witness ==
    /\ pc[1] = "cancelled" /\ tl[1].backup_process
    /\ StatusOf(1) = CANCELLED /\ get_job(1).current_step = "Job cancelled"
    /\ HasLog(1, "WARN", "Backup job was cancelled")

\* ---- C18: a record with status COMPLETED has progress 100 and result
\* {exit_code: 0}; COMPLETED is written only after the backup step exited
\* with code 0, and a SUCCESS entry follows it.
C18_CompletedMeansExitZero ==
    [][\A id \in JobIds :
         /\ (redis_job'[id] # NoJob /\ redis_job'[id].status = COMPLETED) =>
               /\ redis_job'[id].progress = 100
               /\ redis_job'[id].result = [exit_code |-> 0]
               /\ tl'[id].bk_rc = 0
         /\ (redis_job'[id] # NoJob /\ redis_job'[id].status = COMPLETED
                /\ redis_job[id] # redis_job'[id])
               => pc[id] = "bk_ok_upd_w" /\ pc'[id] = "bk_ok_log"
         /\ (pc'[id] = "done" /\ tl'[id].bk_rc = 0)
               => HasLog(id, "SUCCESS", "Backup job completed successfully")']_vars

C18_Witness ==
    /\ StatusOf(1) = COMPLETED /\ get_job(1).progress = 100
    /\ tl[1].nread >= 1 /\ HasLog(1, "INFO", "Unlocking vault")
    /\ HasLog(1, "SUCCESS", "Backup job completed successfully")

\* ---- C19: when the backup step exits with a non-zero code c the run
\* writes FAILED with an error message that names c and appends an ERROR
\* entry; it sets no result and never COMPLETED.
BackupFailed(id) == tl[id].bk_rc \notin {NoExit, 0}

C19_BackupFailureRecorded ==
    [][\A id \in JobIds :
         /\ (pc[id] = "bk_fail_upd_w" /\ pc'[id] # pc[id]) =>
               /\ redis_job'[id].status = FAILED
               /\ redis_job'[id].error
                     = "Backup script exited with code " \o ToString(tl[id].bk_rc)
               /\ redis_job'[id].result = NoResult
               /\ pc'[id] = "bk_fail_log"
         /\ BackupFailed(id)' =>
               /\ pc'[id] \in {"bk_fail_upd", "bk_fail_upd_w", "bk_fail_log", "done"}
               /\ redis_job'[id].status # COMPLETED
               /\ redis_job'[id].result = NoResult
         /\ (BackupFailed(id)' /\ pc'[id] = "done") =>
               HasLog(id, "ERROR",
                      "Backup script exited with code " \o ToString(tl[id].bk_rc))']_vars

C19_Witness ==
    /\ pc[1] = "done" /\ tl[1].bk_rc = 1
    /\ StatusOf(1) = FAILED
    /\ get_job(1).error = "Backup script exited with code 1"
    /\ HasLog(1, "ERROR", "Backup script exited with code 1")

\* ---- C20: cancel_running_job(id) returns True and requests the
\* cancellation of the unit exactly when the registry holds a unit for id
\* that has not finished; otherwise it returns False and requests nothing.
Unfinished(id) == id \in running_tasks /\ pc[id] \notin Finished

C20_SignalIffUnfinished ==
    [][/\ sig'.calls # sig.calls =>
            /\ sig'.ret = Unfinished(sig'.id)
            /\ ~sig'.ret => sig'.pc = "idle" /\ UNCHANGED must_cancel
       /\ (sig.pc = "cancel" /\ sig'.pc = "idle") =>
            /\ sig'.ret
            /\ Unfinished(sig.id)
            /\ must_cancel'[sig.id]]_vars

\* ---- C21: once the unit of a job has finished (success, failure,
\* exception or cancellation) its registry entry is eventually removed; an
\* entry leaves the registry only when its own unit has finished, and the
\* step that removes it removes no other entry.
C21_RegistryEntryRemoved ==
    /\ \A id \in JobIds :
          (id \in running_tasks /\ pc[id] \in Finished) ~> (id \notin running_tasks)
    /\ [][\A id \in running_tasks :
            id \notin running_tasks' =>
                /\ pc[id] \in Finished
                /\ running_tasks' = running_tasks \ {id}]_vars

C21_Witness ==
    /\ pc[1] = "cancelled" /\ 1 \notin running_tasks
    /\ pc[2] \in Finished /\ 2 \in running_tasks

\* ---- C22: an iteration of the stream emits a status event exactly when
\* the (status, progress) it read differs from that of the last status event
\* the stream emitted, the first iteration always emitting one; so no two
\* consecutive status events of the stream carry the same status and progress.
StatusPair(e) == <<e.status, e.progress>>
IsStatus(e) == e.type = "status"
StatusEvents(out) == SelectSeq(out, IsStatus)

C22_StatusEventOnChange ==
    [][(stream.pc = "read" /\ stream'.pc = "logs") =>
         LET sent    == StatusEvents(stream.out)
             all     == StatusEvents(stream'.out)
             read    == stream'.current_job
             emitted == stream'.out = Append(stream.out, StatusEvent(read))
             changed == \/ sent = <<>>
                        \/ StatusPair(sent[Len(sent)]) # StatusPair(read)
         IN  /\ read = get_job(stream.job)
             /\ emitted <=> changed
             /\ ~emitted => stream'.out = stream.out
             /\ \A i \in 1..(Len(all) - 1) :
                    StatusPair(all[i]) # StatusPair(all[i + 1])]_vars

C22_Witness ==
    /\ stream.pc = "logs"
    /\ Len(StatusEvents(stream.out)) >= 2
    /\ stream.out[Len(stream.out)].type = "log"

\* ---- C23: for each of two concurrent streams of one job, the log events
\* emitted so far are a prefix of the job's log list in append order and the
\* stream's cursor counts them; after each fetch they are the whole list, so
\* nothing is duplicated, reordered or skipped; and a step of one stream
\* leaves the other stream's cursor and events as they were.
IsLog(e) == e.type = "log"
EmittedLogs(s) == SelectSeq(s.out, IsLog)
LogEventsOf(id) == [i \in 1..Len(lrange_all(id)) |-> LogEvent(lrange_all(id)[i])]
Streaming(s) == s.pc \notin {"none", "404"}

C23_StreamsEmitLogPrefix ==
    [][/\ \A s \in {stream', viewer'} :
            Streaming(s) =>
                /\ IsPrefix(EmittedLogs(s), LogEventsOf(s.job)')
                /\ s.last_log_index = Len(EmittedLogs(s))
       /\ (stream.pc = "logs" /\ stream'.pc # "logs") =>
                EmittedLogs(stream') = LogEventsOf(stream.job)
       /\ (viewer.pc = "logs" /\ viewer'.pc # "logs") =>
                EmittedLogs(viewer') = LogEventsOf(viewer.job)
       /\ stream' # stream => viewer' = viewer
       /\ viewer' # viewer => stream' = stream]_vars

C23_Witness ==
    /\ stream.job = 1 /\ viewer.job = 1
    /\ stream.last_log_index = 3 /\ viewer.last_log_index = 1
    /\ viewer.pc = "logs" /\ stream.pc = "read"
    /\ EmittedLogs(viewer) # <<>>

\* ---- C24: for a non-empty output line of backup.sh the run writes the
\* progress and the keyword of the first entry of PROGRESS_MAP, in the order
\* of the table, whose keyword occurs in the line whatever the case of the
\* letters, with one update of the record; a line that holds no keyword
\* leaves the record as it was.  "Unlocking vault" gives progress 50 and
\* current_step "Unlocking vault".
Matches(line) ==
    {i \in 1..Len(PROGRESS_MAP) :
        IsSubstring(lower(Chars(PROGRESS_MAP[i][1])), lower(Chars(line)))}

\* What the lines of ScanLines are to give.
ExpectedStep(line) ==
    CASE line = "Unlocking vault" -> <<"Unlocking vault", 50>>
      [] line = "UNLOCKING VAULT" -> <<"Unlocking vault", 50>>
      [] line = "Unlocking vault after Logging out" -> <<"Logging out", 25>>
      [] line = "Backup completed successfully" -> <<"completed successfully", 100>>
      [] OTHER -> <<>>

LinePcs == {"bk_line_log", "bk_line_upd", "bk_line_upd_w"}

C24_FirstKeywordSetsProgress ==
    [][\A id \in JobIds :
         LET line == tl[id].line
             hits == Matches(line)
             step == IF hits = {} THEN <<>>
                     ELSE PROGRESS_MAP[CHOOSE i \in hits : \A k \in hits : i <= k]
         IN  pc[id] \in LinePcs =>
               /\ line \in ScanLines \ {""}
               /\ step = ExpectedStep(line)
               /\ (pc[id] = "bk_line_log" /\ pc'[id] # pc[id]) =>
                     /\ pc'[id] = IF hits = {} THEN "bk_read" ELSE "bk_line_upd"
                     /\ redis_job'[id] = redis_job[id]
               /\ (pc[id] = "bk_line_upd" /\ pc'[id] # pc[id]) =>
                     /\ pc'[id] = "bk_line_upd_w"
                     /\ redis_job'[id] = redis_job[id]
               /\ (pc[id] = "bk_line_upd_w" /\ pc'[id] # pc[id]) =>
                     /\ pc'[id] = "bk_read"
                     /\ redis_job'[id] =
                           [redis_job[id] EXCEPT !.progress = step[2],
                                                 !.current_step = step[1]]]_vars

C24_Witness ==
    /\ pc[1] = "bk_read" /\ tl[1].line = "Unlocking vault after Logging out"
    /\ get_job(1).progress = 25 /\ get_job(1).current_step = "Logging out"

\* ---- C25: a run that is cancelled after it has launched backup.sh ends
\* only when the process is no longer left to itself: the run has terminated
\* it or has collected its exit status.  The run has no step that terminates
\* a process, so what is left is the exit status that backup_process.wait()
\* returns.
Launched(id) == tl[id].backup_process
Collected(id) == tl[id].bk_rc # NoExit

C25_NoOrphanProcess ==
    \A id \in JobIds : (pc[id] = "cancelled" /\ Launched(id)) => Collected(id)

\* ---- C26: the write of a cancel request changes the status only: the step
\* that stores its record leaves progress, current_step, error and result of
\* the stored record as the run last wrote them.
C26_CancelWritesStatusOnly ==
    [][\A h \in Handlers :
         (creq[h].pc = "c_upd_w" /\ creq'[h].pc = "c_log" /\ creq[h].buf # NoJob) =>
            LET old == get_job(creq[h].job)
                new == redis_job'[creq[h].job]
            IN  old # NoJob =>
                  /\ new.progress = old.progress
                  /\ new.current_step = old.current_step
                  /\ new.error = old.error
                  /\ new.result = old.result]_vars

\* ---- C27: when the cancel route answers ok for a job whose unit is
\* registered and unfinished, the unit has been sent the cancellation,
\* whether the request read PENDING or RUNNING; and the unit of a job whose
\* cancel was accepted on PENDING launches no setup or backup process
\* afterwards.
Signalled(id) == must_cancel[id] \/ pc[id] \in CancelPcs \cup {"cancelled"}

AcceptedOnPending(id) ==
    \E h \in Handlers :
        /\ creq[h].kind = "route" /\ creq[h].job = id
        /\ creq[h].seen = PENDING /\ creq[h].res = "ok"

C27_AcceptedCancelIsSignalled ==
    [][/\ \A h \in Handlers :
            (creq[h].kind = "route" /\ creq[h].res # "ok" /\ creq'[h].res = "ok") =>
                (Unfinished(creq[h].job) => Signalled(creq[h].job))
       /\ \A id \in JobIds :
            AcceptedOnPending(id) =>
                /\ ~(pc[id] = "setup_exec" /\ pc'[id] = "setup_comm")
                /\ ~(pc[id] = "bk_exec" /\ pc'[id] = "bk_read")]_vars

\* ---- C28: a stream that has emitted its done event has delivered every
\* entry of the job's log list: no entry is appended to the list after the
\* stream has read the terminal status and emitted done.
DoneSent ==
    /\ stream.pc = "closed" /\ stream.out # <<>>
    /\ stream.out[Len(stream.out)].type = "done"

C28_DoneAfterLastLog ==
    DoneSent => EmittedLogs(stream) = LogEventsOf(stream.job)

\* ---- C29: a stored record has a result only with status COMPLETED and an
\* error only with status FAILED, however the last writes of the run
\* interleave with cancel requests.
C29_ResultAndErrorMatchStatus ==
    \A id \in JobIds :
        redis_job[id] # NoJob =>
            /\ redis_job[id].result # NoResult => redis_job[id].status = COMPLETED
            /\ redis_job[id].error # NoneStr => redis_job[id].status = FAILED

\* ---- C30: only a job that has a record has a log list: add_log for an id
\* whose record is missing creates no entries, so the id of a job that has
\* expired or that cleanup_old_jobs has removed gets no log list again.
C30_NoLogsWithoutRecord ==
    [][\A id \in JobIds :
         /\ (get_job(id) = NoJob /\ lrange_all(id) = <<>>) =>
                (get_job(id)' = NoJob => lrange_all(id)' = <<>>)
         /\ (sweep'.calls # sweep.calls /\ id \in old_jobs(sweep'.max_age_days)) =>
                get_job(id)' = NoJob /\ lrange_all(id)' = <<>>]_vars

=============================================================================
